---- MODULE Spec2Model ----
(***************************************************************************)
(* Model of src/src/spatial_computing.py: the SpatialComputing engine, a   *)
(* SQLite-backed registry of zones (spheres) and entities (points) with    *)
(* brute-force distance queries.                                           *)
(*                                                                         *)
(* The two tables are sequences of row tuples in rowid order (the column   *)
(* order of the CREATE TABLE statements); Zone and SpatialEntity build a   *)
(* record from a row positionally, as the dataclass constructors do.       *)
(*                                                                         *)
(* Numbers.  Coordinates, radii and thresholds are floats in the code; the *)
(* model draws them from small sets of integers (grid units).  For such    *)
(* inputs the sum of squares is exact, and math.sqrt is correctly rounded  *)
(* and monotone, so a distance is represented exactly by its radicand:     *)
(* sqrt_(n) stands for the float math.sqrt(n).  dist_le and dist_lt decide *)
(* sqrt(n) <= r and sqrt(n) < sqrt(m) on that representation.              *)
(***************************************************************************)
EXTENDS Integers, Sequences, FiniteSets, TLC

VARIABLES zones, entities, zone_seq, entity_seq, call, ret, err

vars == <<zones, entities, zone_seq, entity_seq, call, ret, err>>

(***************************************************************************)
(* Bounds and input domains                                                *)
(***************************************************************************)
MaxZones == 2
MaxEntities == 3

\* From the centre (0,1,0) the three points lie at distances 1, sqrt(2) and
\* sqrt(2): radius 1 has a point exactly on the boundary and two outside,
\* radius 2 holds all three with a tie between distinct points, radius -1 holds
\* none.  Between the points the distances are 1, sqrt(2) and sqrt(3).
ZoneNames == {"A", "B"}
EntityNames == {"a", "b"}
Points == {<<0, 0, 0>>, <<1, 0, 0>>, <<1, 1, 1>>}
Centers == {<<0, 1, 0>>}
Radii == {-1, 1, 2}
Thresholds == {0, 1, 2}
ZoneTypes == {"generic"}
EntityTypes == {"object"}
Times == {"t"}
DB_PATH == "~/.blackroad/spatial-computing.db"

(***************************************************************************)
(* Point3D                                                                 *)
(***************************************************************************)
Point3D(x, y, z) == [x |-> x, y |-> y, z |-> z]

sqrt_(n) == [sqrt_of |-> n]

\* Point3D.distance_to
distance_to(self, other) ==
    sqrt_((self.x - other.x) * (self.x - other.x)
          + (self.y - other.y) * (self.y - other.y)
          + (self.z - other.z) * (self.z - other.z))

\* dist <= r for a distance dist = sqrt(n) and a number r
dist_le(dist, r) == r >= 0 /\ dist.sqrt_of <= r * r

\* d1 < d2 for two distances
dist_lt(d1, d2) == d1.sqrt_of < d2.sqrt_of

(***************************************************************************)
(* Zone and SpatialEntity: construction from a row, and asdict             *)
(***************************************************************************)
\* a Zone whose field order differs from the column order of the table
zone_fields_shifted(r) ==
    [id |-> r[1], name |-> r[2], center_x |-> r[3], center_y |-> r[4],
     center_z |-> r[6], radius |-> r[5], zone_type |-> r[7],
     created_at |-> r[8], active |-> r[9]]

Zone(r) ==
    [id |-> r[1], name |-> r[2], center_x |-> r[3], center_y |-> r[4],
     center_z |-> r[5], radius |-> r[6], zone_type |-> r[7],
     created_at |-> r[8], active |-> r[9]]

center(zone) == Point3D(zone.center_x, zone.center_y, zone.center_z)

SpatialEntity(r) ==
    [id |-> r[1], name |-> r[2], x |-> r[3], y |-> r[4], z |-> r[5],
     entity_type |-> r[6], metadata |-> r[7], last_updated |-> r[8]]

position(entity) == Point3D(entity.x, entity.y, entity.z)

asdict(obj) == [k \in DOMAIN obj |-> obj[k]]

(***************************************************************************)
(* The storage: what the SQL statements do to the two tables               *)
(***************************************************************************)
None == <<>>

\* a zones table without the UNIQUE constraint on name
no_unique_constraint(zs, name) == FALSE

\* name TEXT NOT NULL UNIQUE: an INSERT of a name some zone row has fails
UniqueViolation(zs, name) == \E i \in 1..Len(zs) : zs[i][2] = name

\* a zones table whose active column defaults to 0
insert_zone_inactive(zs, seq, name, cx, cy, cz, radius, zone_type, now) ==
    Append(zs, <<seq + 1, name, cx, cy, cz, radius, zone_type, now, 0>>)

\* INSERT INTO zones (name,center_x,center_y,center_z,radius,zone_type,created_at):
\* id from AUTOINCREMENT, active from DEFAULT 1
InsertZone(zs, seq, name, cx, cy, cz, radius, zone_type, now) ==
    Append(zs, <<seq + 1, name, cx, cy, cz, radius, zone_type, now, 1>>)

\* INSERT OR REPLACE keyed on the name: an entity of that name is overwritten
insert_or_replace_entity(es, seq, name, x, y, z, entity_type, meta, now) ==
    Append(SelectSeq(es, LAMBDA r : r[2] # name),
           <<seq + 1, name, x, y, z, entity_type, meta, now>>)

\* INSERT INTO entities (name,x,y,z,entity_type,metadata,last_updated)
InsertEntity(es, seq, name, x, y, z, entity_type, meta, now) ==
    Append(es, <<seq + 1, name, x, y, z, entity_type, meta, now>>)

\* SELECT * FROM <table> WHERE name=? ... fetchone(): the first such row, or None
SelectByName(rows, name) == SelectSeq(rows, LAMBDA r : r[2] = name)

fetchone(rows) == IF rows = <<>> THEN None ELSE Head(rows)

\* SELECT * FROM zones without the WHERE clause
fetch_any_zone(zs, zone_name) == fetchone(zs)

FetchZoneByName(zs, zone_name) == fetchone(SelectByName(zs, zone_name))

FetchEntityByName(es, entity_name) == fetchone(SelectByName(es, entity_name))

\* json.dumps(metadata or {})
json_dumps(metadata) == IF metadata = "None" THEN "{}" ELSE metadata

(***************************************************************************)
(* sorted(results, key=lambda t: t[1]): a stable sort, ascending            *)
(***************************************************************************)
RECURSIVE insert_after_equal(_, _)
insert_after_equal(s, t) ==
    IF s = <<>> THEN <<t>>
    ELSE IF dist_lt(t[2], Head(s)[2]) THEN <<t>> \o s
    ELSE <<Head(s)>> \o insert_after_equal(Tail(s), t)

\* a sort that puts an item before the items of equal key: not stable
RECURSIVE insert_before_equal(_, _)
insert_before_equal(s, t) ==
    IF s = <<>> THEN <<t>>
    ELSE IF dist_lt(Head(s)[2], t[2])
         THEN <<Head(s)>> \o insert_before_equal(Tail(s), t)
    ELSE <<t>> \o s

RECURSIVE sorted_unstable(_)
sorted_unstable(results) ==
    IF results = <<>> THEN <<>>
    ELSE insert_before_equal(sorted_unstable(SubSeq(results, 1, Len(results) - 1)),
                             results[Len(results)])

RECURSIVE sorted(_)
sorted(results) ==
    IF results = <<>> THEN <<>>
    ELSE insert_after_equal(sorted(SubSeq(results, 1, Len(results) - 1)),
                            results[Len(results)])

(***************************************************************************)
(* The read operations, as functions of the two tables                     *)
(***************************************************************************)
list_zones(zs, active_only) ==
    LET rows == IF active_only THEN SelectSeq(zs, LAMBDA r : r[9] = 1) ELSE zs
    IN  [i \in 1..Len(rows) |-> Zone(rows[i])]

list_entities(es) == [i \in 1..Len(es) |-> SpatialEntity(es[i])]

\* dist < zone.radius: the boundary left out
in_zone_strict(dist, radius) == radius > 0 /\ dist.sqrt_of < radius * radius

\* if dist <= zone.radius
in_zone(dist, radius) == dist_le(dist, radius)

\* `entity is target`: never true of two objects built from rows
is_target_never(entity, target) == FALSE

\* the target recognised by name instead of id
is_target_by_name(entity, target) == entity.name = target.name

\* if entity.id == target.id: continue
is_target(entity, target) == entity.id = target.id

\* if dist <= threshold
within_threshold(dist, threshold) == dist_le(dist, threshold)

find_entities_in_zone(zs, es, zone_name) ==
    LET row == FetchZoneByName(zs, zone_name) IN
    IF row = None THEN <<>>
    ELSE LET zone == Zone(row)
             all == list_entities(es)
             pairs == [i \in 1..Len(all) |->
                         <<all[i], distance_to(position(all[i]), center(zone))>>]
             results == SelectSeq(pairs, LAMBDA t : in_zone(t[2], zone.radius))
         IN  sorted(results)

proximity_check(es, entity_name, threshold) ==
    LET row == FetchEntityByName(es, entity_name) IN
    IF row = None THEN <<>>
    ELSE LET target == SpatialEntity(row)
             all == list_entities(es)
             pairs == [i \in 1..Len(all) |->
                         <<all[i], distance_to(position(all[i]), position(target))>>]
             results == SelectSeq(pairs, LAMBDA t :
                            /\ ~is_target(t[1], target)
                            /\ within_threshold(t[2], threshold))
         IN  sorted(results)

status(zs, es) ==
    [active_zones |-> Len(list_zones(zs, TRUE)),
     total_entities |-> Len(list_entities(es)),
     db_path |-> DB_PATH]

export_data(zs, es, now) ==
    LET zl == list_zones(zs, FALSE)
        el == list_entities(es)
    IN  [zones |-> [i \in 1..Len(zl) |-> asdict(zl[i])],
         entities |-> [i \in 1..Len(el) |-> asdict(el[i])],
         exported_at |-> now]

(***************************************************************************)
(* The state machine: one action per public method of SpatialComputing     *)
(***************************************************************************)
Init ==
    /\ zones = <<>>
    /\ entities = <<>>
    /\ zone_seq = 0
    /\ entity_seq = 0
    /\ call = [op |-> "__init__", args |-> <<>>]
    /\ ret = None
    /\ err = "none"

Reads(op, args, result) ==
    /\ call' = [op |-> op, args |-> args]
    /\ ret' = result
    /\ err' = "none"
    /\ UNCHANGED <<zones, entities, zone_seq, entity_seq>>

add_zone(name, cx, cy, cz, radius, zone_type, now) ==
    /\ call' = [op |-> "add_zone", args |-> <<name, cx, cy, cz, radius, zone_type>>]
    /\ IF UniqueViolation(zones, name)
       THEN /\ err' = "IntegrityError"
            /\ ret' = None
            /\ UNCHANGED <<zones, entities, zone_seq, entity_seq>>
       ELSE /\ Len(zones) < MaxZones
            /\ zones' = InsertZone(zones, zone_seq, name, cx, cy, cz, radius,
                                   zone_type, now)
            /\ zone_seq' = zone_seq + 1
            /\ ret' = Zone(<<zone_seq + 1, name, cx, cy, cz, radius, zone_type,
                             now, 1>>)
            /\ err' = "none"
            /\ UNCHANGED <<entities, entity_seq>>

add_entity(name, x, y, z, entity_type, metadata, now) ==
    LET meta == json_dumps(metadata) IN
    /\ Len(entities) < MaxEntities
    /\ call' = [op |-> "add_entity", args |-> <<name, x, y, z, entity_type, metadata>>]
    /\ entities' = InsertEntity(entities, entity_seq, name, x, y, z, entity_type,
                                meta, now)
    /\ entity_seq' = entity_seq + 1
    /\ ret' = SpatialEntity(<<entity_seq + 1, name, x, y, z, entity_type, meta, now>>)
    /\ err' = "none"
    /\ UNCHANGED <<zones, zone_seq>>

ListZones(active_only) ==
    Reads("list_zones", <<active_only>>, list_zones(zones, active_only))

ListEntities == Reads("list_entities", <<>>, list_entities(entities))

FindEntitiesInZone(zone_name) ==
    Reads("find_entities_in_zone", <<zone_name>>,
          find_entities_in_zone(zones, entities, zone_name))

ProximityCheck(entity_name, threshold) ==
    Reads("proximity_check", <<entity_name, threshold>>,
          proximity_check(entities, entity_name, threshold))

Status == Reads("status", <<>>, status(zones, entities))

ExportData(now) == Reads("export_data", <<>>, export_data(zones, entities, now))

Next ==
    \/ \E name \in ZoneNames, c \in Centers, radius \in Radii,
          zone_type \in ZoneTypes, now \in Times :
          add_zone(name, c[1], c[2], c[3], radius, zone_type, now)
    \/ \E name \in EntityNames, p \in Points, entity_type \in EntityTypes,
          now \in Times :
          add_entity(name, p[1], p[2], p[3], entity_type, "None", now)
    \/ \E active_only \in BOOLEAN : ListZones(active_only)
    \/ ListEntities
    \/ \E zone_name \in ZoneNames : FindEntitiesInZone(zone_name)
    \/ \E entity_name \in EntityNames, threshold \in Thresholds :
          ProximityCheck(entity_name, threshold)
    \/ Status
    \/ \E now \in Times : ExportData(now)

Spec == Init /\ [][Next]_vars

(***************************************************************************)
(* Reference notions used by the properties below, stated on the stored    *)
(* rows and in exact arithmetic                                            *)
(***************************************************************************)
RowId(r) == r[1]
RowName(r) == r[2]
RowPos(r) == <<r[3], r[4], r[5]>>
ZoneRadius(r) == r[6]

SqDist(p, q) ==
    (p[1] - q[1]) * (p[1] - q[1]) + (p[2] - q[2]) * (p[2] - q[2])
    + (p[3] - q[3]) * (p[3] - q[3])

\* sqrt(SqDist(p, q)) <= r over the reals
Within(p, q, r) == r >= 0 /\ SqDist(p, q) <= r * r

ZoneIdx(name) == CHOOSE i \in 1..Len(zones) : RowName(zones[i]) = name
EntityIdx(id) == CHOOSE i \in 1..Len(entities) : RowId(entities[i]) = id
ZoneExists(name) == \E i \in 1..Len(zones) : RowName(zones[i]) = name
EntityExists(name) == \E i \in 1..Len(entities) : RowName(entities[i]) = name
NamedIdx(name) == {i \in 1..Len(entities) : RowName(entities[i]) = name}
FirstNamedIdx(name) == CHOOSE i \in NamedIdx(name) : \A j \in NamedIdx(name) : i <= j

IsEntityOfRow(e, r) ==
    /\ DOMAIN e = {"id", "name", "x", "y", "z", "entity_type", "metadata",
                   "last_updated"}
    /\ <<e.id, e.name, e.x, e.y, e.z, e.entity_type, e.metadata, e.last_updated>> = r

IsZoneOfRow(z, r) ==
    /\ DOMAIN z = {"id", "name", "center_x", "center_y", "center_z", "radius",
                   "zone_type", "created_at", "active"}
    /\ <<z.id, z.name, z.center_x, z.center_y, z.center_z, z.radius, z.zone_type,
         z.created_at, z.active>> = r

\* ret, a sequence of (entity, distance) pairs, lists exactly the stored rows in
\* `wanted`, each once, each with its distance to the point `from`
ListsExactly(wanted, from) ==
    /\ \A i \in 1..Len(entities) :
          (i \in wanted) <=>
              (\E k \in 1..Len(ret) : ret[k][1].id = RowId(entities[i]))
    /\ \A k \in 1..Len(ret) :
          \E i \in 1..Len(entities) :
              /\ IsEntityOfRow(ret[k][1], entities[i])
              /\ ret[k][2] = sqrt_(SqDist(RowPos(entities[i]), from))
    /\ \A k, l \in 1..Len(ret) : k # l => ret[k][1].id # ret[l][1].id

\* C1: find_entities_in_zone(Z.name) of an existing zone Z returns exactly the
\* stored entities E with distance(E.position, Z.center) <= Z.radius, each once
\* and with that distance; an entity exactly on the boundary is included.
C1_InZoneExact ==
    (call.op = "find_entities_in_zone" /\ ZoneExists(call.args[1])) =>
        LET Z == zones[ZoneIdx(call.args[1])] IN
        /\ err = "none"
        /\ ListsExactly({i \in 1..Len(entities) :
                           Within(RowPos(entities[i]), RowPos(Z), ZoneRadius(Z))},
                        RowPos(Z))

\* a query of a zone that returned an entity exactly on the boundary and left
\* another stored entity out
C1_Witness ==
    /\ call.op = "find_entities_in_zone"
    /\ ZoneExists(call.args[1])
    /\ LET Z == zones[ZoneIdx(call.args[1])] IN
       /\ ZoneRadius(Z) > 0
       /\ \E k \in 1..Len(ret) : ret[k][2].sqrt_of = ZoneRadius(Z) * ZoneRadius(Z)
    /\ Len(ret) < Len(entities)

\* C2: the result of find_entities_in_zone and of proximity_check is sorted
\* non-decreasing by distance, and entities at equal distance keep their load
\* (insertion) order.
C2_SortedStable ==
    (call.op \in {"find_entities_in_zone", "proximity_check"}) =>
        \A k, l \in 1..Len(ret) :
            k < l =>
                /\ ret[k][2].sqrt_of <= ret[l][2].sqrt_of
                /\ ret[k][2].sqrt_of = ret[l][2].sqrt_of =>
                       EntityIdx(ret[k][1].id) < EntityIdx(ret[l][1].id)

\* a zone query whose result holds two entities at equal distance and one pair
\* that the sort had to reorder (returned before an entity loaded earlier)
C2_Witness ==
    /\ call.op = "find_entities_in_zone"
    /\ \E k, l \in 1..Len(ret) :
          k < l /\ ret[k][2] = ret[l][2]
    /\ \E k, l \in 1..Len(ret) :
          k < l /\ ret[k][1].id > ret[l][1].id

\* the original statement of C3: for EVERY stored entity T bearing the queried
\* name, proximity_check(T.name, t) excludes T and returns exactly the stored
\* entities with another id within t of T.
C3_Original ==
    (call.op = "proximity_check") =>
        \A n \in NamedIdx(call.args[1]) :
            LET T == entities[n] IN
            ListsExactly({i \in 1..Len(entities) :
                            /\ RowId(entities[i]) # RowId(T)
                            /\ Within(RowPos(entities[i]), RowPos(T), call.args[2])},
                         RowPos(T))

\* C3 (amended): for T the first-stored entity bearing the queried name,
\* proximity_check(T.name, t) never includes an entity with T's id and returns
\* exactly the stored entities with id different from T.id and distance to
\* T.position <= t.
C3_ExcludesTarget ==
    (call.op = "proximity_check" /\ EntityExists(call.args[1])) =>
        LET T == entities[FirstNamedIdx(call.args[1])] IN
        /\ err = "none"
        /\ \A k \in 1..Len(ret) : ret[k][1].id # RowId(T)
        /\ ListsExactly({i \in 1..Len(entities) :
                           /\ RowId(entities[i]) # RowId(T)
                           /\ Within(RowPos(entities[i]), RowPos(T), call.args[2])},
                        RowPos(T))

\* a proximity query with threshold 0 that returned a distinct entity lying at
\* the target's own coordinates
C3_Witness ==
    /\ call.op = "proximity_check"
    /\ EntityExists(call.args[1])
    /\ call.args[2] = 0
    /\ \E k \in 1..Len(ret) : ret[k][2] = sqrt_(0)

\* C4: find_entities_in_zone with a zone name no stored zone has, and
\* proximity_check with an entity name no stored entity has, return the empty
\* sequence and raise no error.
C4_MissingNameEmpty ==
    /\ (call.op = "find_entities_in_zone" /\ ~ZoneExists(call.args[1])) =>
           (ret = <<>> /\ err = "none")
    /\ (call.op = "proximity_check" /\ ~EntityExists(call.args[1])) =>
           (ret = <<>> /\ err = "none")

\* a query of an absent zone name on a store that holds another zone whose
\* sphere contains a stored entity
C4_Witness ==
    /\ call.op = "find_entities_in_zone"
    /\ ~ZoneExists(call.args[1])
    /\ \E i \in 1..Len(zones), j \in 1..Len(entities) :
          Within(RowPos(entities[j]), RowPos(zones[i]), ZoneRadius(zones[i]))

IsPrefix(s, t) == Len(s) <= Len(t) /\ SubSeq(t, 1, Len(s)) = s

ZoneNamesDistinct ==
    \A i, j \in 1..Len(zones) : RowName(zones[i]) = RowName(zones[j]) => i = j

\* C5: add_zone with a name an existing zone already has fails with an error
\* and leaves the zone and entity tables as they were; zone names are pairwise
\* distinct in every reachable state.
C5_DuplicateZoneRejected ==
    /\ []ZoneNamesDistinct
    /\ [][(call'.op = "add_zone" /\ ZoneExists(call'.args[1])) =>
              /\ err' = "IntegrityError"
              /\ zones' = zones
              /\ entities' = entities]_vars

\* a failed add_zone on a store that holds a zone and an entity
C5_Witness ==
    /\ call.op = "add_zone"
    /\ err = "IntegrityError"
    /\ ZoneExists(call.args[1])
    /\ Len(entities) >= 1

\* C6: export_data returns every stored zone and every stored entity with
\* every field, in order: rebuilding the rows from the exported dicts gives
\* back the two tables.
C6_ExportRoundTrip ==
    (call.op = "export_data") =>
        /\ err = "none"
        /\ DOMAIN ret = {"zones", "entities", "exported_at"}
        /\ Len(ret.zones) = Len(zones)
        /\ \A i \in 1..Len(zones) : IsZoneOfRow(ret.zones[i], zones[i])
        /\ Len(ret.entities) = Len(entities)
        /\ \A i \in 1..Len(entities) : IsEntityOfRow(ret.entities[i], entities[i])

\* an export of a store with two zones of different radius and two entities
C6_Witness ==
    /\ call.op = "export_data"
    /\ Len(ret.zones) = 2
    /\ ret.zones[1].radius # ret.zones[2].radius
    /\ Len(ret.entities) >= 2

\* C7 (as claimed): every stored zone has radius >= 0.
C7_RadiusNonNegative ==
    \A i \in 1..Len(zones) : ZoneRadius(zones[i]) >= 0

RowIds(rows) == {RowId(rows[i]) : i \in 1..Len(rows)}

\* C8: every step keeps each stored zone and entity, unchanged and in place;
\* an add_zone (add_entity) that returns appends exactly one zone (entity) row
\* whose id no stored zone (entity) has and leaves the other table alone; the
\* six read operations leave both tables alone.
C8_AppendOnly ==
    [][/\ IsPrefix(zones, zones')
       /\ IsPrefix(entities, entities')
       /\ (call'.op = "add_zone" /\ err' = "none") =>
              /\ Len(zones') = Len(zones) + 1
              /\ RowId(zones'[Len(zones')]) \notin RowIds(zones)
              /\ ret'.id = RowId(zones'[Len(zones')])
              /\ entities' = entities
       /\ (call'.op = "add_entity") =>
              /\ err' = "none"
              /\ Len(entities') = Len(entities) + 1
              /\ RowId(entities'[Len(entities')]) \notin RowIds(entities)
              /\ ret'.id = RowId(entities'[Len(entities')])
              /\ zones' = zones
       /\ (call'.op \in {"list_zones", "list_entities", "find_entities_in_zone",
                         "proximity_check", "status", "export_data"}) =>
              (zones' = zones /\ entities' = entities)]_vars

\* an add_entity that acted on a store already holding a zone and an entity of
\* the same name
C8_Witness ==
    /\ call.op = "add_entity"
    /\ Len(zones) >= 1
    /\ Len(entities) >= 2
    /\ \E i \in 1..(Len(entities) - 1) : RowName(entities[i]) = call.args[1]

\* C9: every stored zone is active, so list_zones returns every zone whatever
\* active_only is, and status() reports active_zones = number of stored zones
\* and total_entities = number of stored entities.
C9_AllZonesActive ==
    /\ \A i \in 1..Len(zones) : zones[i][9] = 1
    /\ list_zones(zones, TRUE) = list_zones(zones, FALSE)
    /\ (call.op = "add_zone" /\ err = "none") => ret.active = 1
    /\ (call.op = "list_zones") =>
           /\ Len(ret) = Len(zones)
           /\ \A i \in 1..Len(zones) : IsZoneOfRow(ret[i], zones[i])
    /\ (call.op = "status") =>
           /\ ret.active_zones = Len(zones)
           /\ ret.total_entities = Len(entities)

\* a status() call on a store with two zones and an entity
C9_Witness ==
    /\ call.op = "status"
    /\ ret.active_zones = 2
    /\ ret.total_entities >= 1

\* C10: add_entity succeeds also when the name is taken; proximity_check of a
\* name that several stored entities share takes the first-stored (lowest-id)
\* one as the target, and treats every other entity of that name as a
\* candidate: returned iff within the threshold of the target.
C10_DuplicateEntityNames ==
    /\ (call.op = "add_entity") =>
           /\ err = "none"
           /\ Len(entities) >= 1
           /\ RowName(entities[Len(entities)]) = call.args[1]
           /\ IsEntityOfRow(ret, entities[Len(entities)])
    /\ (call.op = "proximity_check" /\ EntityExists(call.args[1])) =>
           LET first == FirstNamedIdx(call.args[1])
               T == entities[first]
           IN  /\ \A i \in NamedIdx(call.args[1]) : RowId(T) <= RowId(entities[i])
               /\ \A k \in 1..Len(ret) : ret[k][1].id # RowId(T)
               /\ \A i \in NamedIdx(call.args[1]) \ {first} :
                      Within(RowPos(entities[i]), RowPos(T), call.args[2]) <=>
                          \E k \in 1..Len(ret) :
                              /\ ret[k][1].id = RowId(entities[i])
                              /\ ret[k][2] = sqrt_(SqDist(RowPos(entities[i]),
                                                          RowPos(T)))

\* a proximity query of a name two entities share that returned the second one
C10_Witness ==
    /\ call.op = "proximity_check"
    /\ Cardinality(NamedIdx(call.args[1])) >= 2
    /\ \E k \in 1..Len(ret) : ret[k][1].name = call.args[1]

====
